---------------------------- MODULE Spec2Model ----------------------------
(***************************************************************************)
(* A model of src/f5_tts/infer/infer/ifgjs.py: the speech-type text parser *)
(* (parse_speechtypes_text), the multi-style handler                       *)
(* (generate_multistyle_speech), the batch chapter handlers                *)
(* (process_json_file, batch_tts_synthesize) and the voice-chat handlers   *)
(* (process_audio_input, generate_audio_response, clear_conversation,      *)
(* update_system_prompt, load_chat_model), the speech-type rows of the     *)
(* multi-style tab (add_speech_type_fn, delete_speech_type_fn,             *)
(* insert_speech_type_fn, validate_speech_types) and the choice of the TTS *)
(* model (switch_tts_model, set_custom_model, infer's model selection).    *)
(*                                                                         *)
(* Text is a sequence of atoms.  An atom is one of the characters the      *)
(* parser treats specially ("{", "}", a blank, a line break) or a run of   *)
(* other characters that the regular expression and str.strip() treat      *)
(* alike ("a", the non-ASCII "é", a word such as "Regular").               *)
(***************************************************************************)
EXTENDS Naturals, Sequences, FiniteSets

VARIABLES
    \* parse_speechtypes_text (lines 311-333)
    gen_text,        \* the argument
    tokens,          \* re.split's result
    i,               \* the loop index (0-based, as in the code)
    segments,        \* the list being built
    current_style,   \* the style in force
    parse_pc,        \* "call" | "loop" | "done"
    \* generate_multistyle_speech (lines 491-550)
    ms_gen_text,     \* gen_text, the text to generate
    ms_names,        \* speech_type_names_list, one per row (0-based rows)
    ms_audios,       \* speech_type_audios_list
    ms_ref_texts,    \* speech_type_ref_texts_list
    speech_types,    \* the OrderedDict: key -> [audio, ref_text]
    ms_keys,         \* the OrderedDict's keys in insertion order
    ms_segments,     \* segments
    ms_idx,          \* how many segments the loop has taken
    ms_style,        \* current_style
    generated_audio_segments,
    infer_calls,     \* the calls of infer made so far, in order
    ms_out,          \* the returned audio
    ms_pc,           \* "call" | "loop" | "done" | "KeyError" | "InferError"
    \* process_json_file, batch_tts_synthesize (lines 222-288)
    chapter_list,    \* the global list of chapter texts
    last_upload,     \* the file handed to the latest process_json_file
    chapter_list_output,  \* what process_json_file returned
    bt_idx,          \* idx of the loop of batch_tts_synthesize
    file_paths,      \* file_paths
    bt_calls,        \* the chapter texts handed to infer, in order
    bt_outcomes,     \* per chapter taken: "ok" | "infer_failed" | "write_failed"
    bt_upload,       \* last_upload as it was when the batch was started
    output_files,    \* the files written to generated_audio
    output_files_output,  \* what batch_tts_synthesize returned
    bt_pc,           \* "idle" | "loop" | "done"
    \* the voice chat (lines 641-813)
    chatbot_interface,   \* the history: pairs of user text and reply
    conversation_state,  \* the messages handed to the language model
    audio_input_chat,    \* the recording, "None" without one
    text_input_chat,     \* the typed message
    ref_audio_chat,      \* the reference audio, "None" without one
    ref_text_chat,       \* the reference text
    system_prompt_chat,  \* the system prompt box
    trigger,         \* the event whose chain runs: "stop_recording" | "submit" | "click"
    turn_no,         \* the chat turns started so far
    turn_reply,      \* the reply process_audio_input produced in this turn
    turn_synth,      \* the text generate_audio_response handed to infer in this turn
    chat_pc,         \* "idle" | "process" | "generate" | "clear"
    response_args,   \* the model and tokenizer generate_response got in this turn, <<>> before
    \* the chat model (lines 82-83, 611-639)
    USING_SPACES,    \* whether the spaces package could be imported (lines 22-27)
    chat_model_state,         \* "None" | the loaded model
    chat_tokenizer_state,     \* "None" | the loaded tokenizer
    chat_interface_container, \* whether the chat widgets are visible
    load_chat_model_btn,      \* whether "Load Chat Model" is visible
    model_loads,     \* how often the chat model was loaded
    load_outcome,    \* how the latest click on "Load Chat Model" ended
    \* the speech types of the multi-style tab (lines 373-453, 566-596)
    gen_text_input_multistyle,  \* "Text to Generate"
    speech_type_names,   \* the name boxes, row 0 being "Regular"
    speech_type_rows,    \* the visibility of the additional rows (rows 1..)
    speech_type_count,   \* the gr.State of line 407
    generate_multistyle_btn,  \* whether the Generate button is interactive
    clicked_delete,      \* the row whose "Delete Type" the latest click hit, as a set
    rows_before,         \* speech_type_rows before that click
    \* the TTS model choice (lines 47-48, 78-80, 165-172, 828-888)
    choose_tts_model,    \* the radio: "F5-TTS" | "E2-TTS" | "Custom"
    custom_ckpt_path,    \* the dropdown of the checkpoint
    custom_vocab_path,   \* the dropdown of the vocabulary
    custom_visible,      \* whether the two dropdowns are visible
    tts_model_choice,    \* the global selector handed to infer
    last_used_custom,    \* the content of last_used_custom.txt
    E2TTS_ema_model,
    custom_ema_model,    \* "None" | what load_custom returned
    pre_custom_path,
    ema_model,           \* the model the latest infer synthesized with
    infer_model,         \* the selector the latest infer was called with
    infer_outcome,       \* "none" | "ran" | "load_failed" | "assert_failed"
    cache_before         \* custom_ema_model and pre_custom_path as that infer found them

parseVars == <<gen_text, tokens, i, segments, current_style, parse_pc>>

multiVars == <<ms_gen_text, ms_names, ms_audios, ms_ref_texts, speech_types,
               ms_keys, ms_segments, ms_idx, ms_style,
               generated_audio_segments, infer_calls, ms_out, ms_pc>>

batchVars == <<chapter_list, last_upload, chapter_list_output, bt_idx,
               file_paths, bt_calls, bt_outcomes, bt_upload, output_files,
               output_files_output, bt_pc>>

chatVars == <<chatbot_interface, conversation_state, audio_input_chat,
              text_input_chat, ref_audio_chat, ref_text_chat, system_prompt_chat,
              trigger, turn_no, turn_reply, turn_synth, chat_pc,
              response_args>>

chatModelVars == <<USING_SPACES, chat_model_state, chat_tokenizer_state,
                   chat_interface_container, load_chat_model_btn, model_loads,
                   load_outcome>>

typeVars == <<gen_text_input_multistyle, speech_type_names, speech_type_rows,
              speech_type_count, generate_multistyle_btn, clicked_delete,
              rows_before>>

modelVars == <<choose_tts_model, custom_ckpt_path, custom_vocab_path,
               custom_visible, tts_model_choice, last_used_custom,
               E2TTS_ema_model, custom_ema_model, pre_custom_path, ema_model,
               infer_model, infer_outcome, cache_before>>

\* What the handlers of the TTS tabs leave alone.
appVars == <<chatModelVars, typeVars, modelVars>>

vars == <<parseVars, multiVars, batchVars, chatVars, appVars>>

-----------------------------------------------------------------------------
(* Bounds of the model *)

\* The longest text handed to the parser, in atoms.
MaxLen == 6

\* The speech-type rows the model keeps (the code builds 100, line 382).
max_speech_types == 3

\* The most blocks (a text, or a marker and its text) of a multi-style text.
MaxBlocks == 2

\* The most chapters of an uploaded JSON file.
MaxChapters == 2

\* The most chat turns of a session.
MaxTurns == 3

-----------------------------------------------------------------------------
(* Text helpers *)

Min(S) == CHOOSE x \in S : \A y \in S : x <= y

Max(S) == CHOOSE x \in S : \A y \in S : x >= y

\* All sequences over S of length at most n.
SeqsUpTo(S, n) == UNION {[1..k -> S] : k \in 0..n}

\* The characters str.strip() removes at both ends (of the model's atoms).
Whitespace == {" ", "\n"}

\* str.strip(): the text without its leading and trailing whitespace.
Strip(t) ==
    LET keep == {k \in 1..Len(t) : t[k] \notin Whitespace}
    IN  IF keep = {} THEN <<>> ELSE SubSeq(t, Min(keep), Max(keep))

-----------------------------------------------------------------------------
(* re.split(r"\{(.*?)\}", gen_text) *)

\* The position of the first "}" after position p, 0 when there is none.
FirstClose(s, p) ==
    LET closes == {q \in (p + 1)..Len(s) : s[q] = "}"}
    IN  IF closes = {} THEN 0 ELSE Min(closes)

\* The pattern matches at p: a "{" whose lazy ".*?" reaches a "}" without
\* crossing a line break ("." does not match "\n").
MatchAt(s, p) ==
    /\ s[p] = "{"
    /\ FirstClose(s, p) # 0
    /\ \A k \in (p + 1)..(FirstClose(s, p) - 1) : s[k] # "\n"

\* The leftmost match starting at or after `from`, 0 when there is none.
NextMatch(s, from) ==
    LET starts == {p \in from..Len(s) : MatchAt(s, p)}
    IN  IF starts = {} THEN 0 ELSE Min(starts)

RECURSIVE ReSplitFrom(_, _)
\* The pieces of s from position `from` on: text, label, text, label, ..., text.
ReSplitFrom(s, from) ==
    LET p == NextMatch(s, from)
        q == FirstClose(s, p)
    IN  IF p = 0
        THEN <<SubSeq(s, from, Len(s))>>
        ELSE <<SubSeq(s, from, p - 1), SubSeq(s, p + 1, q - 1)>>
                 \o ReSplitFrom(s, q + 1)

ReSplit(s) == ReSplitFrom(s, 1)

-----------------------------------------------------------------------------
(* parse_speechtypes_text *)

\* A misspelt default style.
Regular_Misspelt == <<"regular">>

\* The default style (line 320).
Regular == <<"Regular">>

\* Line 327: the dict appended for a non-empty text.
Segment(style, text) == [style |-> style, text |-> text]

\* The text branch without its `if text:` test.
TextBranch_KeepBlank(segs, style, tok) ==
    Append(segs, Segment(style, Strip(tok)))

\* The text branch inserting at the front of the list.
TextBranch_Prepend(segs, style, tok) ==
    IF Strip(tok) # <<>> THEN <<Segment(style, Strip(tok))>> \o segs ELSE segs

\* The text branch keeping the unstripped token.
TextBranch_NoStrip(segs, style, tok) ==
    IF Strip(tok) # <<>> THEN Append(segs, Segment(style, tok)) ELSE segs

\* Lines 324-327: an even index holds text; it is stripped and kept when
\* something is left.
TextBranch(segs, style, tok) ==
    IF Strip(tok) # <<>> THEN Append(segs, Segment(style, Strip(tok))) ELSE segs

\* The style branch without its strip().
StyleBranch_NoStrip(tok) == tok

\* Lines 329-331: an odd index holds a label; stripped, it becomes the style.
StyleBranch(tok) == Strip(tok)

RECURSIVE ParseLoop(_, _, _, _)
\* Lines 322-333: the loop from index k on, and the returned list.
ParseLoop(toks, k, segs, style) ==
    IF k >= Len(toks) THEN segs
    ELSE IF k % 2 = 0
         THEN ParseLoop(toks, k + 1, TextBranch(segs, style, toks[k + 1]), style)
         ELSE ParseLoop(toks, k + 1, segs, StyleBranch(toks[k + 1]))

\* The function as a whole.
parse_speechtypes_text(text) == ParseLoop(ReSplit(text), 0, <<>>, Regular)

\* The atoms of the texts handed to the parser.
Alphabet == {"{", "}", " ", "\n", "a", "é"}

\* The parser at rest, for the specifications of the other handlers.
ParseIdle ==
    /\ gen_text = <<>>
    /\ tokens = <<>>
    /\ i = 0
    /\ segments = <<>>
    /\ current_style = Regular
    /\ parse_pc = "done"

ParseInit ==
    /\ gen_text \in SeqsUpTo(Alphabet, MaxLen)
    /\ tokens = <<>>
    /\ i = 0
    /\ segments = <<>>
    /\ current_style = Regular
    /\ parse_pc = "call"

\* Lines 313-320.
ParseCall ==
    /\ parse_pc = "call"
    /\ tokens' = ReSplit(gen_text)
    /\ segments' = <<>>
    /\ current_style' = Regular
    /\ i' = 0
    /\ parse_pc' = "loop"
    /\ UNCHANGED <<gen_text, multiVars, batchVars, chatVars, appVars>>

\* Lines 323-327.
ParseText ==
    /\ parse_pc = "loop"
    /\ i < Len(tokens)
    /\ i % 2 = 0
    /\ segments' = TextBranch(segments, current_style, tokens[i + 1])
    /\ i' = i + 1
    /\ UNCHANGED <<gen_text, tokens, current_style, parse_pc, multiVars, batchVars, chatVars, appVars>>

\* Lines 328-331.
ParseStyle ==
    /\ parse_pc = "loop"
    /\ i < Len(tokens)
    /\ i % 2 = 1
    /\ current_style' = StyleBranch(tokens[i + 1])
    /\ i' = i + 1
    /\ UNCHANGED <<gen_text, tokens, segments, parse_pc, multiVars, batchVars, chatVars, appVars>>

\* Line 333.
ParseReturn ==
    /\ parse_pc = "loop"
    /\ i = Len(tokens)
    /\ parse_pc' = "done"
    /\ UNCHANGED <<gen_text, tokens, i, segments, current_style, multiVars, batchVars, chatVars, appVars>>

NextParse == ParseCall \/ ParseText \/ ParseStyle \/ ParseReturn

-----------------------------------------------------------------------------
(* What the claims about the parser speak of, stated on the input and the  *)
(* token list without the parser's own operators.                          *)

\* Every atom of t is whitespace.
IsBlank(t) == \A k \in 1..Len(t) : t[k] \in Whitespace

\* t is span with leading and trailing whitespace removed and nothing else.
IsTrimOf(t, span) ==
    /\ t # <<>>
    /\ t[1] \notin Whitespace
    /\ t[Len(t)] \notin Whitespace
    /\ \E lo \in 1..Len(span) :
          /\ lo + Len(t) - 1 <= Len(span)
          /\ t = SubSeq(span, lo, lo + Len(t) - 1)
          /\ IsBlank(SubSeq(span, 1, lo - 1))
          /\ IsBlank(SubSeq(span, lo + Len(t), Len(span)))

\* A marker of s: a "{" at p and the first "}" after it at q, on one line.
IsMarker(s, p, q) ==
    /\ p < q
    /\ s[p] = "{"
    /\ s[q] = "}"
    /\ \A k \in (p + 1)..(q - 1) : s[k] \notin {"}", "\n"}

HasMarker(s) == \E p, q \in 1..Len(s) : IsMarker(s, p, q)

\* Where the first marker of s starts.
FirstMarkerStart(s) ==
    Min({p \in 1..Len(s) : \E q \in 1..Len(s) : IsMarker(s, p, q)})

\* The 0-based indices below n of the text tokens, and of those with text left.
TextIdx(n) == {j \in 0..(n - 1) : j % 2 = 0}

NonBlankIdx(n) == {j \in TextIdx(n) : ~IsBlank(tokens[j + 1])}

\* The k-th smallest element of S.
KthOf(S, k) == CHOOSE x \in S : Cardinality({y \in S : y <= x}) = k

\* The token index the k-th segment was taken from.
SrcIdx(k) == KthOf(NonBlankIdx(i), k)

\* The token list put back together, each label inside its braces.
RECURSIVE Rejoin(_, _)
Rejoin(toks, k) ==
    IF k > Len(toks) THEN <<>>
    ELSE IF k % 2 = 1
         THEN toks[k] \o Rejoin(toks, k + 1)
         ELSE <<"{">> \o toks[k] \o <<"}">> \o Rejoin(toks, k + 1)

\* style is the label tok with its outer whitespace removed.
IsLabelOf(style, tok) ==
    IF IsBlank(tok) THEN style = <<>> ELSE IsTrimOf(style, tok)

\* C1: the style of every emitted segment is the trimmed label of the marker
\* that precedes its text most closely (the token right before its span), and
\* while the loop runs the current style is the trimmed label of the last
\* marker passed, until the next one replaces it.
C1_StyleOfNearestMarker ==
    /\ \A k \in 1..Len(segments) :
          (k <= Cardinality(NonBlankIdx(i)) /\ SrcIdx(k) > 0)
              => IsLabelOf(segments[k].style, tokens[SrcIdx(k)])
    /\ (parse_pc = "loop" /\ i >= 2)
          => IsLabelOf(current_style, tokens[IF i % 2 = 0 THEN i ELSE i - 1])

\* C1's case: the parser returned a segment that follows two markers with
\* different labels and carries the label of the nearer one.
C1_Witness ==
    /\ parse_pc = "done"
    /\ Len(tokens) >= 5
    /\ tokens[2] # <<>>
    /\ tokens[4] # tokens[2]
    /\ ~IsBlank(tokens[5])
    /\ segments[Len(segments)].style = tokens[4]

\* C2: text before the first marker that is not blank is the first segment,
\* with style "Regular"; without any marker the output is the one "Regular"
\* segment holding the trimmed input, or empty when the input is blank.
C2_RegularBeforeFirstMarker ==
    parse_pc = "done" =>
        /\ ~IsBlank(tokens[1])
              => /\ Len(segments) >= 1
                 /\ segments[1].style = <<"Regular">>
                 /\ IsTrimOf(segments[1].text, tokens[1])
        /\ ~HasMarker(gen_text)
              => /\ tokens = <<gen_text>>
                 /\ IF IsBlank(gen_text) THEN segments = <<>>
                    ELSE /\ Len(segments) = 1
                         /\ segments[1].style = <<"Regular">>
                         /\ IsTrimOf(segments[1].text, gen_text)
        /\ HasMarker(gen_text)
              => tokens[1] = SubSeq(gen_text, 1, FirstMarkerStart(gen_text) - 1)

\* C2's case: text with outer whitespace stands before a first marker and was
\* returned as a "Regular" segment ahead of a segment of another style.
C2_Witness ==
    /\ parse_pc = "done"
    /\ HasMarker(gen_text)
    /\ Len(segments) = 2
    /\ segments[1].style = <<"Regular">>
    /\ tokens[1] # segments[1].text

\* C3: no emitted segment has empty or blank text, and there are exactly as
\* many segments as non-blank text spans: a blank span, such as the gap
\* between two consecutive markers, emits nothing.
C3_BlankSpansDropped ==
    /\ \A k \in 1..Len(segments) : ~IsBlank(segments[k].text)
    /\ Len(segments) = Cardinality(NonBlankIdx(i))

\* C3's case: two consecutive markers with an empty gap, a blank span, and a
\* segment after them.
C3_Witness ==
    /\ parse_pc = "done"
    /\ Len(tokens) >= 5
    /\ tokens[3] = <<>>
    /\ tokens[1] # <<>>
    /\ IsBlank(tokens[1])
    /\ Len(segments) = 1

\* C4: the segments are the non-blank spans in input order: the k-th segment
\* holds the text of the k-th non-blank span, none twice and none out of place.
C4_InputOrder ==
    /\ Len(segments) <= Cardinality(NonBlankIdx(i))
    /\ \A k \in 1..Len(segments) :
          segments[k].text = Strip(tokens[SrcIdx(k) + 1])
    /\ \A k1, k2 \in 1..Len(segments) : k1 < k2 => SrcIdx(k1) < SrcIdx(k2)

\* C4's case: two segments with different texts were returned.
C4_Witness ==
    /\ parse_pc = "done"
    /\ Len(segments) >= 2
    /\ segments[1].text # segments[2].text

\* C6: every segment's text is its span of the input with only the outer
\* whitespace removed, and the spans and labels are the input's own pieces.
C6_TextVerbatim ==
    /\ parse_pc # "call" => Rejoin(tokens, 1) = gen_text
    /\ \A k \in 1..Len(segments) :
          k <= Cardinality(NonBlankIdx(i))
              => IsTrimOf(segments[k].text, tokens[SrcIdx(k) + 1])

\* C6's case: a returned text keeps an interior line break and a non-ASCII
\* character, and its span had outer whitespace.
C6_Witness ==
    /\ parse_pc = "done"
    /\ \E k \in 1..Len(segments) :
          /\ \E n \in 1..Len(segments[k].text) : segments[k].text[n] = "\n"
          /\ \E n \in 1..Len(segments[k].text) : segments[k].text[n] = "é"
          /\ segments[k].text # tokens[SrcIdx(k) + 1]


-----------------------------------------------------------------------------
(* infer, as its callers see it (lines 124-200) *)

\* preprocess_ref_audio_text (line 154): a blank reference text is replaced
\* by a transcript of the reference audio, a given one is kept.
Preprocess(ref_audio, ref_text) ==
    IF ref_text = "" THEN "transcript of " \o ref_audio ELSE ref_text

\* The waveform infer returns (line 200): gen_text spoken in the voice of
\* ref_audio, here one chunk naming both.
Wave(ref_audio, text) == <<[voice |-> ref_audio, text |-> text]>>

\* One call of infer, as recorded in infer_calls.
InferCall(ref_audio, ref_text, text) ==
    [ref_audio |-> ref_audio, ref_text |-> ref_text, gen_text |-> text]

-----------------------------------------------------------------------------
(* generate_multistyle_speech *)

Digits == <<"0", "1", "2", "3", "4", "5", "6", "7", "8", "9">>

\* Line 510: the key f"@{ref_text_idx}@" of a row without name or audio.
PlaceholderKey(idx) == <<"@" \o Digits[idx + 1] \o "@">>

\* A dict with key k set to v.
Put(d, k, v) == [x \in DOMAIN d \cup {k} |-> IF x = k THEN v ELSE d[x]]

\* Lines 507-510: the key and the value row idx contributes.
RowKey(names, audios, idx) ==
    IF names[idx + 1] # <<>> /\ audios[idx + 1] # "None"
    THEN names[idx + 1]
    ELSE PlaceholderKey(idx)

RowValue(names, audios, ref_texts, idx) ==
    IF names[idx + 1] # <<>> /\ audios[idx + 1] # "None"
    THEN [audio |-> audios[idx + 1], ref_text |-> ref_texts[idx + 1]]
    ELSE [audio |-> "", ref_text |-> ""]

RECURSIVE CollectSpeechTypes(_, _, _, _, _)
\* Lines 501-511: the dict after rows idx, idx + 1, ... are added to d.
CollectSpeechTypes(names, audios, ref_texts, idx, d) ==
    IF idx >= Len(names) THEN d
    ELSE CollectSpeechTypes(names, audios, ref_texts, idx + 1,
             Put(d, RowKey(names, audios, idx),
                 RowValue(names, audios, ref_texts, idx)))

RECURSIVE CollectKeys(_, _, _, _)
\* The insertion order of the dict's keys: a key set again keeps its place.
CollectKeys(names, audios, idx, keys) ==
    IF idx >= Len(names) THEN keys
    ELSE LET k == RowKey(names, audios, idx)
         IN  CollectKeys(names, audios, idx + 1,
                 IF \E n \in 1..Len(keys) : keys[n] = k THEN keys
                 ELSE Append(keys, k))

\* Lines 524-528: the style a segment is spoken in.
ResolveStyle(style, types) ==
    IF style \in DOMAIN types THEN style ELSE Regular

RECURSIVE Concatenate(_)
\* np.concatenate (line 544).
Concatenate(chunks) ==
    IF chunks = <<>> THEN <<>> ELSE Head(chunks) \o Concatenate(Tail(chunks))

\* The audio output before the handler has returned, and the None of line 550.
NoAudio == [is_none |-> TRUE, data |-> <<>>]

\* The names, reference audios, labels and texts the inputs are drawn from.
RowNames == {<<>>, <<"Regular">>, <<"Sad">>}

AudioFile(idx) == "ref" \o Digits[idx + 1] \o ".wav"

AudioValues == {"None"} \cup {AudioFile(r) : r \in 0..(max_speech_types - 1)}

Labels == {<<"Regular">>, <<"Sad">>, <<"Happy">>, <<"@1@">>}

Blocks ==
    {<<"a">>, <<" ">>}
        \cup {<<"{">> \o l \o <<"}">> \o t : l \in Labels, t \in {<<"b">>, <<>>}}

RECURSIVE JoinBlocks(_)
JoinBlocks(bs) == IF bs = <<>> THEN <<>> ELSE Head(bs) \o JoinBlocks(Tail(bs))

\* The handler at rest, for the specifications of the other handlers.
MultiIdle ==
    /\ ms_gen_text = <<>>
    /\ ms_names = <<>>
    /\ ms_audios = <<>>
    /\ ms_ref_texts = <<>>
    /\ speech_types = <<>>
    /\ ms_keys = <<>>
    /\ ms_segments = <<>>
    /\ ms_idx = 0
    /\ ms_style = Regular
    /\ generated_audio_segments = <<>>
    /\ infer_calls = <<>>
    /\ ms_out = NoAudio
    /\ ms_pc = "done"

\* The click of "Generate Multi-Style Speech" with the widgets' values.
MultiInit ==
    /\ ms_gen_text \in {JoinBlocks(bs) : bs \in SeqsUpTo(Blocks, MaxBlocks)}
    /\ ms_names \in [1..max_speech_types -> RowNames]
    /\ ms_audios \in {a \in [1..max_speech_types -> AudioValues] :
                         \A r \in 1..max_speech_types :
                             a[r] \in {"None", AudioFile(r - 1)}}
    /\ ms_ref_texts = [r \in 1..max_speech_types |-> ""]
    /\ speech_types = <<>>
    /\ ms_keys = <<>>
    /\ ms_segments = <<>>
    /\ ms_idx = 0
    /\ ms_style = Regular
    /\ generated_audio_segments = <<>>
    /\ infer_calls = <<>>
    /\ ms_out = NoAudio
    /\ ms_pc = "call"

msInputs == <<ms_gen_text, ms_names, ms_audios, ms_ref_texts>>

\* Lines 496-518: the dict of speech types, the parsed segments.
MultiCall ==
    /\ ms_pc = "call"
    /\ speech_types' = CollectSpeechTypes(ms_names, ms_audios, ms_ref_texts, 0, <<>>)
    /\ ms_keys' = CollectKeys(ms_names, ms_audios, 0, <<>>)
    /\ ms_segments' = parse_speechtypes_text(ms_gen_text)
    /\ generated_audio_segments' = <<>>
    /\ ms_style' = Regular
    /\ ms_idx' = 0
    /\ ms_pc' = "loop"
    /\ UNCHANGED <<msInputs, infer_calls, ms_out, parseVars, batchVars, chatVars, appVars>>

\* Lines 520-530 when speech_types[current_style] raises KeyError: the style
\* is no key and neither is "Regular".  The handler ends with the exception.
MultiKeyError ==
    /\ ms_pc = "loop"
    /\ ms_idx < Len(ms_segments)
    /\ LET style == ResolveStyle(ms_segments[ms_idx + 1].style, speech_types)
       IN  /\ style \notin DOMAIN speech_types
           /\ ms_style' = style
    /\ ms_pc' = "KeyError"
    /\ UNCHANGED <<msInputs, speech_types, ms_keys, ms_segments, ms_idx,
                   generated_audio_segments, infer_calls, ms_out, parseVars, batchVars, chatVars, appVars>>

\* Lines 520-540 when infer returns.
MultiInferReturns ==
    /\ ms_pc = "loop"
    /\ ms_idx < Len(ms_segments)
    /\ LET style == ResolveStyle(ms_segments[ms_idx + 1].style, speech_types)
           text == ms_segments[ms_idx + 1].text
       IN  /\ style \in DOMAIN speech_types
           /\ LET ref_audio == speech_types[style].audio
                  ref_text == speech_types[style].ref_text
              IN  /\ infer_calls' =
                         Append(infer_calls, InferCall(ref_audio, ref_text, text))
                  /\ generated_audio_segments' =
                         Append(generated_audio_segments, Wave(ref_audio, text))
                  /\ speech_types' =
                         Put(speech_types, style,
                             [audio |-> ref_audio,
                              ref_text |-> Preprocess(ref_audio, ref_text)])
           /\ ms_style' = style
    /\ ms_idx' = ms_idx + 1
    /\ UNCHANGED <<msInputs, ms_keys, ms_segments, ms_out, ms_pc, parseVars, batchVars, chatVars, appVars>>

\* Lines 520-536 when infer raises: nothing catches it, the handler ends.
MultiInferRaises ==
    /\ ms_pc = "loop"
    /\ ms_idx < Len(ms_segments)
    /\ LET style == ResolveStyle(ms_segments[ms_idx + 1].style, speech_types)
           text == ms_segments[ms_idx + 1].text
       IN  /\ style \in DOMAIN speech_types
           /\ infer_calls' =
                  Append(infer_calls,
                         InferCall(speech_types[style].audio,
                                   speech_types[style].ref_text, text))
           /\ ms_style' = style
    /\ ms_pc' = "InferError"
    /\ UNCHANGED <<msInputs, speech_types, ms_keys, ms_segments, ms_idx,
                   generated_audio_segments, ms_out, parseVars, batchVars, chatVars, appVars>>

\* Lines 542-550.
MultiReturn ==
    /\ ms_pc = "loop"
    /\ ms_idx = Len(ms_segments)
    /\ ms_out' = IF generated_audio_segments # <<>>
                 THEN [is_none |-> FALSE,
                       data |-> Concatenate(generated_audio_segments)]
                 ELSE NoAudio
    /\ ms_pc' = "done"
    /\ UNCHANGED <<msInputs, speech_types, ms_keys, ms_segments, ms_idx, ms_style,
                   generated_audio_segments, infer_calls, parseVars,
                   batchVars, chatVars, appVars>>

NextMulti ==
    \/ MultiCall
    \/ MultiKeyError
    \/ MultiInferReturns
    \/ MultiInferRaises
    \/ MultiReturn


\* The rows that configure a speech type: a name and a reference audio.
ConfiguredRows ==
    {r \in 1..Len(ms_names) : ms_names[r] # <<>> /\ ms_audios[r] # "None"}

ConfiguredNames == {ms_names[r] : r \in ConfiguredRows}

\* The row of the speech type named `name` (the last one, were there two).
RowNamed(name) == Max({r \in ConfiguredRows : ms_names[r] = name})

\* C5: with a speech type named "Regular" configured, a segment whose style
\* is the name of no configured speech type is synthesized with the reference
\* audio and the reference text of "Regular".
C5_FallbackToRegular ==
    <<"Regular">> \in ConfiguredNames =>
        /\ ms_pc # "KeyError"
        /\ \A k \in 1..Len(infer_calls) :
              ms_segments[k].style \notin ConfiguredNames
                  => /\ infer_calls[k].ref_audio = ms_audios[RowNamed(<<"Regular">>)]
                     /\ infer_calls[k].ref_text \in
                            {ms_ref_texts[RowNamed(<<"Regular">>)],
                             Preprocess(ms_audios[RowNamed(<<"Regular">>)],
                                        ms_ref_texts[RowNamed(<<"Regular">>)])}

\* C9: when the handler has ended, infer was called once per parsed segment,
\* in order and with the segment's text, and the audio returned is the
\* concatenation of what the calls returned; without a segment there is no
\* call and the audio is None.
C9_InferOncePerSegment ==
    ms_pc \in {"done", "KeyError", "InferError"} =>
        /\ Len(infer_calls) = Len(ms_segments)
        /\ \A k \in 1..Len(infer_calls) :
              infer_calls[k].gen_text = ms_segments[k].text
        /\ ms_segments # <<>>
              => ms_out =
                    [is_none |-> FALSE,
                     data |-> Concatenate(
                         [k \in 1..Len(infer_calls) |->
                             Wave(infer_calls[k].ref_audio,
                                  infer_calls[k].gen_text)])]
        /\ ms_segments = <<>> => ms_out = NoAudio

-----------------------------------------------------------------------------
(* process_json_file and batch_tts_synthesize *)

\* "\n".join(lines) (lines 246 and 288).
RECURSIVE JoinLines(_)
JoinLines(lines) ==
    IF lines = <<>> THEN ""
    ELSE IF Len(lines) = 1 THEN lines[1]
    ELSE lines[1] \o "\n" \o JoinLines(Tail(lines))

\* Line 241: f"{title} {content}".
Paragraph(title, content) == title \o " " \o content

\* Lines 240-243: the chapters of the JSON object, in its order.
Paragraphs(chapters) ==
    [k \in 1..Len(chapters) |-> Paragraph(chapters[k][1], chapters[k][2])]

\* process_json_file without the reset of line 228.
NewChapterList_NoReset(old, upload) ==
    IF upload.kind = "mapping" THEN old \o Paragraphs(upload.chapters) ELSE old

\* Lines 228-249: chapter_list after the call.  It is reset first; only a
\* file that loads and holds a non-empty "chapters" mapping adds to it.
NewChapterList(old, upload) ==
    IF upload.kind = "mapping" THEN Paragraphs(upload.chapters) ELSE <<>>

\* Lines 238, 246, 249: what process_json_file returns.
JsonFileResult(upload) ==
    CASE upload.kind = "mapping" -> JoinLines(Paragraphs(upload.chapters))
      [] upload.kind \in {"no_chapters_key", "empty_chapters"}
            -> "Error: No chapters found."
      [] OTHER -> "Error: " \o upload.kind

\* Lines 278-279 with the 1-based number one too small.
ChapterPath_FromZero(idx) == "generated_audio/chapter_" \o Digits[idx + 1] \o ".wav"

\* Lines 278-279: os.path.join(output_dir, f"chapter_{idx + 1}.wav").
ChapterPath(idx) == "generated_audio/chapter_" \o Digits[idx + 2] \o ".wav"

\* Line 261.
NoChaptersError == "Error: No chapters available for synthesis."

\* The files that can be uploaded: one that cannot be opened or parsed, one
\* whose JSON is no object, an object without "chapters", with an empty
\* "chapters", with "chapters" that is no mapping (no .items()), and objects
\* with a mapping of titles to contents.
Titles == {"One", "Two", "Three"}

Contents == {"x"}

ChapterLists ==
    {c \in SeqsUpTo(Titles \X Contents, MaxChapters) :
        /\ c # <<>>
        /\ \A a, b \in 1..Len(c) : a # b => c[a][1] # c[b][1]}

Uploads ==
    {[kind |-> k, chapters |-> <<>>] :
        k \in {"unreadable", "not_an_object", "no_chapters_key",
               "empty_chapters", "chapters_not_a_mapping"}}
        \cup {[kind |-> "mapping", chapters |-> c] : c \in ChapterLists}

NoUpload == [kind |-> "none", chapters |-> <<>>]

BatchInit ==
    /\ chapter_list = <<>>
    /\ last_upload = NoUpload
    /\ chapter_list_output = ""
    /\ bt_idx = 0
    /\ file_paths = <<>>
    /\ bt_calls = <<>>
    /\ bt_outcomes = <<>>
    /\ bt_upload = NoUpload
    /\ output_files = {}
    /\ output_files_output = ""
    /\ bt_pc = "idle"

btLoop == <<bt_idx, file_paths, bt_calls, bt_outcomes, bt_upload, output_files,
            output_files_output, bt_pc>>

\* Lines 226-249, the click of "Generate Chapters".
ProcessJsonFile ==
    /\ bt_pc # "loop"
    /\ \E upload \in Uploads :
          /\ chapter_list' = NewChapterList(chapter_list, upload)
          /\ chapter_list_output' = JsonFileResult(upload)
          /\ last_upload' = upload
    /\ UNCHANGED <<btLoop, parseVars, multiVars, chatVars, appVars>>

\* Lines 253-261, the click of "Synthesize All Chapters" without chapters.
BatchNoChapters ==
    /\ bt_pc # "loop"
    /\ chapter_list = <<>>
    /\ output_files_output' = NoChaptersError
    /\ bt_idx' = 0
    /\ file_paths' = <<>>
    /\ bt_calls' = <<>>
    /\ bt_outcomes' = <<>>
    /\ bt_upload' = last_upload
    /\ bt_pc' = "done"
    /\ UNCHANGED <<chapter_list, last_upload, chapter_list_output, output_files,
                   parseVars, multiVars, chatVars, appVars>>

\* Lines 253-264, the click with chapters: the loop starts.
BatchCall ==
    /\ bt_pc # "loop"
    /\ chapter_list # <<>>
    /\ bt_idx' = 0
    /\ file_paths' = <<>>
    /\ bt_calls' = <<>>
    /\ bt_outcomes' = <<>>
    /\ bt_upload' = last_upload
    /\ bt_pc' = "loop"
    /\ UNCHANGED <<chapter_list, last_upload, chapter_list_output, output_files,
                   output_files_output, parseVars, multiVars, chatVars, appVars>>

\* Lines 264-282: infer returns and the file is written.
BatchChapterWritten ==
    /\ bt_pc = "loop"
    /\ bt_idx < Len(chapter_list)
    /\ bt_calls' = Append(bt_calls, chapter_list[bt_idx + 1])
    /\ output_files' = output_files \cup {ChapterPath(bt_idx)}
    /\ file_paths' = Append(file_paths, ChapterPath(bt_idx))
    /\ bt_outcomes' = Append(bt_outcomes, "ok")
    /\ bt_idx' = bt_idx + 1
    /\ UNCHANGED <<chapter_list, last_upload, chapter_list_output, bt_upload,
                   output_files_output, bt_pc, parseVars, multiVars, chatVars, appVars>>

\* Lines 264-276, 283-284: infer raises; the exception is caught.
BatchInferFails ==
    /\ bt_pc = "loop"
    /\ bt_idx < Len(chapter_list)
    /\ bt_calls' = Append(bt_calls, chapter_list[bt_idx + 1])
    /\ bt_outcomes' = Append(bt_outcomes, "infer_failed")
    /\ bt_idx' = bt_idx + 1
    /\ UNCHANGED <<chapter_list, last_upload, chapter_list_output, file_paths,
                   bt_upload, output_files, output_files_output, bt_pc,
                   parseVars, multiVars, chatVars, appVars>>

\* Lines 264-281, 283-284: sf.write raises; the exception is caught.  The
\* file may or may not have been created.
BatchWriteFails ==
    /\ bt_pc = "loop"
    /\ bt_idx < Len(chapter_list)
    /\ bt_calls' = Append(bt_calls, chapter_list[bt_idx + 1])
    /\ bt_outcomes' = Append(bt_outcomes, "write_failed")
    /\ \E created \in BOOLEAN :
          output_files' = IF created THEN output_files \cup {ChapterPath(bt_idx)}
                          ELSE output_files
    /\ bt_idx' = bt_idx + 1
    /\ UNCHANGED <<chapter_list, last_upload, chapter_list_output, file_paths,
                   bt_upload, output_files_output, bt_pc, parseVars, multiVars, chatVars, appVars>>

\* Lines 286-288.
BatchReturn ==
    /\ bt_pc = "loop"
    /\ bt_idx = Len(chapter_list)
    /\ output_files_output' = JoinLines(file_paths)
    /\ bt_pc' = "done"
    /\ UNCHANGED <<chapter_list, last_upload, chapter_list_output, bt_idx,
                   file_paths, bt_calls, bt_outcomes, bt_upload, output_files,
                   parseVars, multiVars, chatVars, appVars>>

NextBatch ==
    \/ ProcessJsonFile
    \/ BatchNoChapters
    \/ BatchCall
    \/ BatchChapterWritten
    \/ BatchInferFails
    \/ BatchWriteFails
    \/ BatchReturn

\* What chapter_list has to hold after the upload u: one "title content"
\* entry per chapter, in the order of the JSON object.
EntriesOf(u) ==
    IF u.kind = "mapping"
    THEN [k \in 1..Len(u.chapters) |-> u.chapters[k][1] \o " " \o u.chapters[k][2]]
    ELSE <<>>

\* The 1-based numbers of the chapters taken so far that succeeded, ascending.
RECURSIVE SucceededPaths(_)
SucceededPaths(k) ==
    IF k = 0 THEN <<>>
    ELSE SucceededPaths(k - 1)
             \o (IF bt_outcomes[k] = "ok"
                 THEN <<"generated_audio/chapter_" \o Digits[k + 1] \o ".wav">>
                 ELSE <<>>)

\* C8: every chapter is handed to infer once, in list order, whether or not
\* earlier chapters failed, and the listing returned holds exactly
\* chapter_k.wav for the chapters k that succeeded, in ascending k.
C8_EveryChapterAttempted ==
    /\ bt_pc = "loop" =>
          /\ bt_calls = SubSeq(chapter_list, 1, bt_idx)
          /\ Len(bt_outcomes) = bt_idx
          /\ file_paths = SucceededPaths(bt_idx)
    /\ (bt_pc = "done" /\ bt_upload.kind = "mapping") =>
          /\ bt_calls = EntriesOf(bt_upload)
          /\ Len(bt_outcomes) = Len(bt_calls)
          /\ output_files_output = JoinLines(SucceededPaths(Len(bt_calls)))

\* C8's case: a batch of two chapters has returned; the first failed and the
\* second was still taken and succeeded.
C8_Witness ==
    /\ bt_pc = "done"
    /\ Len(bt_outcomes) >= 2
    /\ bt_outcomes[1] # "ok"
    /\ bt_outcomes[2] = "ok"
    /\ output_files_output = "generated_audio/chapter_2.wav"

\* C10: chapter_list holds exactly the chapters of the latest upload and
\* nothing of earlier ones; after an upload that was unreadable or had no
\* chapters it is empty, and a batch started then returns the error message
\* without a call of infer.
C10_LatestUploadOnly ==
    /\ chapter_list = EntriesOf(last_upload)
    /\ (bt_pc = "done" /\ bt_upload.kind # "mapping") =>
          /\ output_files_output = "Error: No chapters available for synthesis."
          /\ bt_calls = <<>>
          /\ file_paths = <<>>

\* C10's case: after an upload with chapters, an upload without was
\* processed and a batch started then has returned.
C10_Witness ==
    /\ bt_pc = "done"
    /\ bt_upload.kind \in {"unreadable", "empty_chapters"}
    /\ output_files # {}
    /\ chapter_list = <<>>

-----------------------------------------------------------------------------
(* The voice chat *)

\* Lines 658, 683, 748: the system prompt the page starts with.
DefaultSystemPrompt ==
    "You are not an AI assistant, you are whoever the user says you are. You must stay in character. Keep your responses concise since they will be spoken out loud."

Message(role, content) == [role |-> role, content |-> content]

\* Lines 679-686, 745-750: the conversation with the default prompt alone.
InitialConversation == <<Message("system", DefaultSystemPrompt)>>

\* A pair of the history (lines 707, 714).
Pair(user, reply) == [user |-> user, reply |-> reply]

\* text.strip() is empty (line 697), for the typed messages of the model.
StripsToEmpty(text) == text \in {"", " "}

\* Line 703: preprocess_ref_audio_text(audio_path, text)[1]: the transcript
\* of the recording when the text is blank, the text otherwise.
Transcribed(audio_path, text) ==
    IF StripsToEmpty(text) THEN "transcript of " \o audio_path ELSE text

\* The reply the language model gives in turn n.
ReplyOf(n) == "reply " \o Digits[n + 1]

\* The messages a user can type, and the prompts they can set.
TypedTexts == {"", " ", "hi"}

SystemPrompts == {DefaultSystemPrompt, "You are a pirate."}

ChatInit ==
    /\ chatbot_interface = <<>>
    /\ conversation_state = InitialConversation
    /\ audio_input_chat = "None"
    /\ text_input_chat = ""
    /\ ref_audio_chat = "None"
    /\ ref_text_chat = ""
    /\ system_prompt_chat = DefaultSystemPrompt
    /\ trigger = "none"
    /\ turn_no = 0
    /\ turn_reply = "None"
    /\ turn_synth = "None"
    /\ chat_pc = "idle"
    /\ response_args = <<>>

\* Lines 622, 637: the language model of the chat.
model_name == "Qwen/Qwen2.5-3B-Instruct"

\* Lines 22-27, 82-83, 611-639: the chat model when the page is built.  In
\* Spaces the model and the tokenizer are loaded at once and the chat widgets
\* are visible; elsewhere they wait for "Load Chat Model".
ChatModelInit ==
    /\ USING_SPACES \in BOOLEAN
    /\ chat_model_state = IF USING_SPACES THEN model_name ELSE "None"
    /\ chat_tokenizer_state = IF USING_SPACES THEN model_name ELSE "None"
    /\ chat_interface_container = USING_SPACES
    /\ load_chat_model_btn = ~USING_SPACES
    /\ model_loads = IF USING_SPACES THEN 1 ELSE 0
    /\ load_outcome = "none"

\* Lines 617-631: load_chat_model loads the model and the tokenizer and
\* shows the chat widgets.
LoadChatModelLoads ==
    /\ chat_pc = "idle"
    /\ load_chat_model_btn
    /\ chat_model_state = "None"
    /\ chat_model_state' = model_name
    /\ chat_tokenizer_state' = model_name
    /\ model_loads' = model_loads + 1
    /\ load_chat_model_btn' = FALSE
    /\ chat_interface_container' = TRUE
    /\ load_outcome' = "loaded"
    /\ UNCHANGED <<USING_SPACES, parseVars, multiVars, batchVars, chatVars,
                   typeVars, modelVars>>

\* Lines 618-624: AutoModelForCausalLM.from_pretrained raises; the handler
\* fails and the page stays as it is.
LoadChatModelModelFails ==
    /\ chat_pc = "idle"
    /\ load_chat_model_btn
    /\ chat_model_state = "None"
    /\ load_outcome' = "model_failed"
    /\ UNCHANGED <<USING_SPACES, chat_model_state, chat_tokenizer_state,
                   chat_interface_container, load_chat_model_btn, model_loads,
                   parseVars, multiVars, batchVars, chatVars, typeVars,
                   modelVars>>

\* Lines 618-626: the model is loaded and assigned to the global, then
\* AutoTokenizer.from_pretrained raises; the handler fails and the page
\* stays as it is.
LoadChatModelTokenizerFails ==
    /\ chat_pc = "idle"
    /\ load_chat_model_btn
    /\ chat_model_state = "None"
    /\ chat_model_state' = model_name
    /\ model_loads' = model_loads + 1
    /\ load_outcome' = "tokenizer_failed"
    /\ UNCHANGED <<USING_SPACES, chat_tokenizer_state,
                   chat_interface_container, load_chat_model_btn, parseVars,
                   multiVars, batchVars, chatVars, typeVars, modelVars>>

\* Lines 618-619, 629: the model is there already; only the widgets change.
LoadChatModelCached ==
    /\ chat_pc = "idle"
    /\ load_chat_model_btn
    /\ chat_model_state # "None"
    /\ load_chat_model_btn' = FALSE
    /\ chat_interface_container' = TRUE
    /\ load_outcome' = "cached"
    /\ UNCHANGED <<USING_SPACES, chat_model_state, chat_tokenizer_state,
                   model_loads, parseVars, multiVars, batchVars, chatVars,
                   typeVars, modelVars>>

\* The user types into "Type your message".
TypeMessage ==
    /\ chat_pc = "idle"
    /\ chat_interface_container
    /\ \E t \in TypedTexts : t # text_input_chat /\ text_input_chat' = t
    /\ UNCHANGED <<chatbot_interface, conversation_state, audio_input_chat,
                   ref_audio_chat, ref_text_chat, system_prompt_chat, trigger,
                   turn_no, turn_reply, turn_synth, chat_pc, parseVars,
                   multiVars, batchVars,
                   response_args, appVars>>

\* The user uploads or removes the reference audio.
SetRefAudio ==
    /\ chat_pc = "idle"
    /\ chat_interface_container
    /\ ref_audio_chat' = IF ref_audio_chat = "None" THEN "ref.wav" ELSE "None"
    /\ UNCHANGED <<chatbot_interface, conversation_state, audio_input_chat,
                   text_input_chat, ref_text_chat, system_prompt_chat, trigger,
                   turn_no, turn_reply, turn_synth, chat_pc, parseVars,
                   multiVars, batchVars,
                   response_args, appVars>>

\* Lines 758-761: the recording stops and its chain starts.
StopRecording ==
    /\ chat_pc = "idle"
    /\ chat_interface_container
    /\ turn_no < MaxTurns
    /\ audio_input_chat' = "rec.wav"
    /\ trigger' = "stop_recording"
    /\ turn_no' = turn_no + 1
    /\ turn_reply' = "None"
    /\ turn_synth' = "None"
    /\ response_args' = <<>>
    /\ chat_pc' = "process"
    /\ UNCHANGED <<chatbot_interface, conversation_state, text_input_chat,
                   ref_audio_chat, ref_text_chat, system_prompt_chat, parseVars,
                   multiVars, batchVars,
                   appVars>>

\* Lines 773-776 and 788-791: the text is submitted or "Send Message" is
\* clicked, and the chain starts.
SendText ==
    /\ chat_pc = "idle"
    /\ chat_interface_container
    /\ turn_no < MaxTurns
    /\ \E e \in {"submit", "click"} : trigger' = e
    /\ turn_no' = turn_no + 1
    /\ turn_reply' = "None"
    /\ turn_synth' = "None"
    /\ response_args' = <<>>
    /\ chat_pc' = "process"
    /\ UNCHANGED <<chatbot_interface, conversation_state, audio_input_chat,
                   text_input_chat, ref_audio_chat, ref_text_chat,
                   system_prompt_chat, parseVars, multiVars, batchVars,
                   appVars>>

chatInputs == <<audio_input_chat, text_input_chat, ref_audio_chat,
                ref_text_chat, system_prompt_chat, trigger, turn_no>>

\* Lines 697-699: neither a recording nor a text.
ProcessNoInput ==
    /\ chat_pc = "process"
    /\ audio_input_chat = "None"
    /\ StripsToEmpty(text_input_chat)
    /\ chat_pc' = "generate"
    /\ UNCHANGED <<chatbot_interface, conversation_state, chatInputs,
                   turn_reply, turn_synth, parseVars, multiVars, batchVars,
                   response_args, appVars>>

\* Lines 701-703, 716-718: the transcription of the recording raises; the
\* exception is caught before anything was appended.
ProcessTranscriptionRaises ==
    /\ chat_pc = "process"
    /\ audio_input_chat # "None"
    /\ chat_pc' = "generate"
    /\ UNCHANGED <<chatbot_interface, conversation_state, chatInputs,
                   turn_reply, turn_synth, parseVars, multiVars, batchVars,
                   response_args, appVars>>

\* Line 702-704: the text of the turn.
TurnText ==
    IF audio_input_chat # "None"
    THEN Transcribed(audio_input_chat, text_input_chat)
    ELSE text_input_chat

\* Line 710: what generate_response is called with.
ResponseArgs == <<chat_model_state, chat_tokenizer_state>>

\* Lines 701-715: the language model replies.
ProcessReplies ==
    /\ chat_pc = "process"
    /\ audio_input_chat # "None" \/ ~StripsToEmpty(text_input_chat)
    /\ chat_model_state # "None"
    /\ chat_tokenizer_state # "None"
    /\ response_args' = ResponseArgs
    /\ conversation_state' =
           conversation_state
               \o <<Message("user", TurnText),
                    Message("assistant", ReplyOf(turn_no))>>
    /\ chatbot_interface' =
           Append(chatbot_interface, Pair(TurnText, ReplyOf(turn_no)))
    /\ turn_reply' = ReplyOf(turn_no)
    /\ chat_pc' = "generate"
    /\ UNCHANGED <<chatInputs, turn_synth, parseVars, multiVars, batchVars,
                   appVars>>

\* Lines 701-710, 716-718: generate_response raises (it always does without
\* a model or a tokenizer, lines 94-103); the user's message stays in the
\* conversation and the history pair keeps None as its reply.
ProcessModelRaises ==
    /\ chat_pc = "process"
    /\ audio_input_chat # "None" \/ ~StripsToEmpty(text_input_chat)
    /\ response_args' = ResponseArgs
    /\ conversation_state' =
           Append(conversation_state, Message("user", TurnText))
    /\ chatbot_interface' = Append(chatbot_interface, Pair(TurnText, "None"))
    /\ chat_pc' = "generate"
    /\ UNCHANGED <<chatInputs, turn_reply, turn_synth, parseVars, multiVars, batchVars,
                   appVars>>

\* Lines 724-729: whether generate_audio_response goes on to infer: there is
\* a history, a reference audio and a reply in the last pair.
HasReplyToSpeak(history, ref_audio) ==
    /\ history # <<>>
    /\ ref_audio # "None"
    /\ history[Len(history)].reply # "None"

\* Lines 724-729: nothing to speak.
GenerateNothing ==
    /\ chat_pc = "generate"
    /\ ~HasReplyToSpeak(chatbot_interface, ref_audio_chat)
    /\ chat_pc' = "clear"
    /\ UNCHANGED <<chatbot_interface, conversation_state, chatInputs,
                   turn_reply, turn_synth, parseVars, multiVars, batchVars,
                   response_args, appVars>>

\* Lines 727-741: the reply of the last pair is synthesized.
GenerateSpeaks ==
    /\ chat_pc = "generate"
    /\ HasReplyToSpeak(chatbot_interface, ref_audio_chat)
    /\ turn_synth' = chatbot_interface[Len(chatbot_interface)].reply
    /\ ref_text_chat' = Preprocess(ref_audio_chat, ref_text_chat)
    /\ chat_pc' = "clear"
    /\ UNCHANGED <<chatbot_interface, conversation_state, audio_input_chat,
                   text_input_chat, ref_audio_chat, system_prompt_chat, trigger,
                   turn_no, turn_reply, parseVars, multiVars, batchVars,
                   response_args, appVars>>

\* Lines 727-740: infer is called and raises.
GenerateInferRaises ==
    /\ chat_pc = "generate"
    /\ HasReplyToSpeak(chatbot_interface, ref_audio_chat)
    /\ turn_synth' = chatbot_interface[Len(chatbot_interface)].reply
    /\ chat_pc' = "clear"
    /\ UNCHANGED <<chatbot_interface, conversation_state, chatInputs,
                   turn_reply, parseVars, multiVars, batchVars,
                   response_args, appVars>>

\* Lines 766-770, 781-785, 796-800: the last step of the chain empties the
\* input the event came from.
ClearInput ==
    /\ chat_pc = "clear"
    /\ IF trigger = "stop_recording"
       THEN audio_input_chat' = "None" /\ UNCHANGED text_input_chat
       ELSE text_input_chat' = "" /\ UNCHANGED audio_input_chat
    /\ chat_pc' = "idle"
    /\ UNCHANGED <<chatbot_interface, conversation_state, ref_audio_chat,
                   ref_text_chat, system_prompt_chat, trigger, turn_no,
                   turn_reply, turn_synth, parseVars, multiVars, batchVars,
                   response_args, appVars>>

\* Lines 743-750, 803-806: "Clear Conversation".
ClearConversation ==
    /\ chat_pc = "idle"
    /\ chat_interface_container
    /\ chatbot_interface' = <<>>
    /\ conversation_state' = InitialConversation
    /\ UNCHANGED <<chatInputs, turn_reply, turn_synth, chat_pc, parseVars,
                   multiVars, batchVars,
                   response_args, appVars>>

\* update_system_prompt answering as clear_conversation does.
NewConversation_DefaultPrompt(new_prompt) == InitialConversation

\* Lines 752-755: the conversation after a change of the system prompt.
NewConversation(new_prompt) == <<Message("system", new_prompt)>>

\* Lines 752-755, 809-813: the system prompt box changes.
UpdateSystemPrompt ==
    /\ chat_pc = "idle"
    /\ chat_interface_container
    /\ \E new_prompt \in SystemPrompts \ {system_prompt_chat} :
          /\ system_prompt_chat' = new_prompt
          /\ chatbot_interface' = <<>>
          /\ conversation_state' = NewConversation(new_prompt)
    /\ UNCHANGED <<audio_input_chat, text_input_chat, ref_audio_chat,
                   ref_text_chat, trigger, turn_no, turn_reply, turn_synth,
                   chat_pc, parseVars, multiVars, batchVars,
                   response_args, appVars>>

NextChat ==
    \/ TypeMessage
    \/ SetRefAudio
    \/ StopRecording
    \/ SendText
    \/ ProcessNoInput
    \/ ProcessTranscriptionRaises
    \/ ProcessReplies
    \/ ProcessModelRaises
    \/ GenerateNothing
    \/ GenerateSpeaks
    \/ GenerateInferRaises
    \/ ClearInput
    \/ ClearConversation
    \/ UpdateSystemPrompt
    \/ LoadChatModelLoads
    \/ LoadChatModelModelFails
    \/ LoadChatModelTokenizerFails
    \/ LoadChatModelCached

\* C7: in a chat turn generate_audio_response runs after process_audio_input
\* and hands infer only the reply that process_audio_input produced in the
\* same turn; a turn without a reply synthesizes nothing.
C7_SpeaksOnlyThisTurnsReply ==
    /\ chat_pc \in {"process", "generate"} => turn_synth = "None"
    /\ turn_synth # "None" => turn_synth = turn_reply
    /\ (chat_pc \in {"clear", "idle"} /\ turn_reply = "None")
          => turn_synth = "None"

\* C11: whatever the conversation was, a step of update_system_prompt(p)
\* leaves the chat history empty and the conversation state one message, of
\* role "system" and content p, p being the new value of the prompt box.
C11_PromptChangeResets ==
    [][UpdateSystemPrompt =>
          /\ chatbot_interface' = <<>>
          /\ Len(conversation_state') = 1
          /\ conversation_state'[1].role = "system"
          /\ conversation_state'[1].content = system_prompt_chat']_vars

\* The prompt was changed after a turn that had a reply: the history is
\* empty again and the conversation is the new prompt alone.  (Clear
\* Conversation would have left the default prompt.)
C11_Witness ==
    /\ chat_pc = "idle"
    /\ turn_reply # "None"
    /\ chatbot_interface = <<>>
    /\ system_prompt_chat # DefaultSystemPrompt
    /\ conversation_state = <<Message("system", system_prompt_chat)>>

\* C15: outside Spaces the chat widgets are visible only when load_chat_model
\* has set both chat_model_state and chat_tokenizer_state, no turn calls
\* generate_response without a model or without a tokenizer, and the model
\* is loaded at most once however often "Load Chat Model" is clicked.
C15_ChatOnlyWithLoadedModel ==
    ~USING_SPACES =>
        /\ chat_interface_container =>
               (chat_model_state # "None" /\ chat_tokenizer_state # "None")
        /\ \A k \in DOMAIN response_args : response_args[k] # "None"
        /\ model_loads <= 1

\* C16: whenever process_audio_input has returned, the messages after the
\* system message alternate user, assistant, ..., the conversation has one
\* system message and two messages per pair of the history, and no pair of
\* the history lacks its reply.
C16_TranscriptWellFormed ==
    chat_pc # "process" =>
        /\ Len(conversation_state) = 1 + 2 * Len(chatbot_interface)
        /\ conversation_state[1].role = "system"
        /\ \A k \in 2..Len(conversation_state) :
               conversation_state[k].role =
                   IF k % 2 = 0 THEN "user" ELSE "assistant"
        /\ \A k \in DOMAIN chatbot_interface :
               chatbot_interface[k].reply # "None"

-----------------------------------------------------------------------------
(* The speech types of the multi-style tab *)

\* Lines 391-404: the additional rows, as indices of speech_type_rows and of
\* speech_type_delete_btns (0-based, as in the code).
AdditionalRows == 0..(max_speech_types - 2)

\* gr.update(visible=True), gr.update(visible=False) and gr.update().
Show == "visible=True"

Hide == "visible=False"

NoUpdate == "no change"

\* Lines 413-426: add_speech_type_fn's new count.
AddCount(count) == IF count < max_speech_types THEN count + 1 ELSE count

\* Lines 413-426: add_speech_type_fn's row_updates, as a sequence: element
\* i belongs to the loop's i (1..max_speech_types - 1).
AddRowUpdates(count) ==
    [idx \in 1..(max_speech_types - 1) |->
        IF count < max_speech_types /\ idx < count + 1 THEN Show ELSE NoUpdate]

\* Lines 433-442: delete_speech_type_fn's row_updates, for the index the
\* function was made with.
DeleteRowUpdates(index) ==
    [idx \in 1..(max_speech_types - 1) |->
        IF idx = index THEN Hide ELSE NoUpdate]

\* Line 444: speech_type_count = max(1, speech_type_count).
DeleteCount(count) == Max({1, count})

\* outputs=[speech_type_count] + speech_type_rows (lines 429, 453): the
\* k-th update goes to speech_type_rows[k - 1].
ApplyRowUpdates(rows, row_updates) ==
    [r \in AdditionalRows |->
        CASE row_updates[r + 1] = Show -> TRUE
          [] row_updates[r + 1] = Hide -> FALSE
          [] OTHER -> rows[r]]

\* Lines 571-576: the non-empty names of the name boxes.
SpeechTypesAvailable(names) ==
    {names[r] : r \in DOMAIN names} \ {<<>>}

\* Lines 579-580: the styles of the segments of the text.
SpeechTypesInText(text) ==
    LET segs == parse_speechtypes_text(text)
    IN  {segs[k].style : k \in DOMAIN segs}

\* Lines 567-590: validate_speech_types; TRUE is gr.update(interactive=True).
validate_speech_types(text, names) ==
    SpeechTypesInText(text) \ SpeechTypesAvailable(names) = {}

\* Lines 462-466: insert_speech_type_fn's new text.
InsertedText(current_text, speech_type_name) ==
    current_text
        \o <<"{">>
        \o (IF speech_type_name = <<>> THEN <<"None">> ELSE speech_type_name)
        \o <<"}", " ">>

\* The texts and names a user types.
TypedBlocks ==
    {<<"a">>}
        \cup {<<"{">> \o l \o <<"}", "b">> : l \in {<<"Regular">>, <<"Sad">>}}

TypedGenTexts == {JoinBlocks(bs) : bs \in SeqsUpTo(TypedBlocks, MaxBlocks)}

TypedNames == {<<>>, <<"Regular">>, <<"Sad">>}

\* Lines 376, 391-410, 486: the tab as built: "Regular" in the first name
\* box, the additional rows hidden, the count 1, the button interactive.
TypesInit ==
    /\ gen_text_input_multistyle = <<>>
    /\ speech_type_names =
           [r \in 1..max_speech_types |-> IF r = 1 THEN Regular ELSE <<>>]
    /\ speech_type_rows = [r \in AdditionalRows |-> FALSE]
    /\ speech_type_count = 1
    /\ generate_multistyle_btn = TRUE
    /\ clicked_delete = {}
    /\ rows_before = [r \in AdditionalRows |-> FALSE]

\* The widgets of row r of the name boxes (1 is "Regular") can be used.
RowShown(r) == IF r = 1 THEN TRUE ELSE speech_type_rows[r - 2]

\* Lines 592-596: the text box changes by the user's hand, and
\* validate_speech_types sets the button.
EditGenText ==
    /\ \E text \in TypedGenTexts \ {gen_text_input_multistyle} :
          /\ gen_text_input_multistyle' = text
          /\ generate_multistyle_btn' =
                 validate_speech_types(text, speech_type_names)
    /\ UNCHANGED <<speech_type_names, speech_type_rows, speech_type_count,
                   clicked_delete, rows_before, parseVars, multiVars,
                   batchVars, chatVars, chatModelVars, modelVars>>

\* Lines 461-476, 592-596: "Insert Label" of a row appends the row's name
\* as a marker; the text box changes and validate_speech_types runs.
InsertLabel ==
    /\ \E r \in 1..max_speech_types :
          /\ RowShown(r)
          /\ Len(gen_text_input_multistyle) + 4 <= MaxLen
          /\ LET text == InsertedText(gen_text_input_multistyle,
                                      speech_type_names[r])
             IN  /\ gen_text_input_multistyle' = text
                 /\ generate_multistyle_btn' =
                        validate_speech_types(text, speech_type_names)
    /\ UNCHANGED <<speech_type_names, speech_type_rows, speech_type_count,
                   clicked_delete, rows_before, parseVars, multiVars,
                   batchVars, chatVars, chatModelVars, modelVars>>

\* A name box changes; no handler listens to it (lines 376, 394).
EditName ==
    /\ \E r \in 1..max_speech_types, name \in TypedNames :
          /\ RowShown(r)
          /\ name # speech_type_names[r]
          /\ speech_type_names' = [speech_type_names EXCEPT ![r] = name]
    /\ UNCHANGED <<gen_text_input_multistyle, speech_type_rows,
                   speech_type_count, generate_multistyle_btn, clicked_delete,
                   rows_before, parseVars, multiVars, batchVars, chatVars,
                   chatModelVars, modelVars>>

\* Lines 413-430: "Add Speech Type".
AddSpeechType ==
    /\ speech_type_count' = AddCount(speech_type_count)
    /\ speech_type_rows' =
           ApplyRowUpdates(speech_type_rows, AddRowUpdates(speech_type_count))
    /\ clicked_delete' = {}
    /\ rows_before' = speech_type_rows
    /\ UNCHANGED <<gen_text_input_multistyle, speech_type_names,
                   generate_multistyle_btn, parseVars, multiVars, batchVars,
                   chatVars, chatModelVars, modelVars>>

\* Lines 433-453: "Delete Type" of the additional row k: the function made
\* by make_delete_speech_type_fn(k), k being the button's place in
\* speech_type_delete_btns.
DeleteSpeechType ==
    /\ \E k \in AdditionalRows :
          /\ speech_type_rows[k]
          /\ speech_type_count' = DeleteCount(speech_type_count)
          /\ speech_type_rows' =
                 ApplyRowUpdates(speech_type_rows, DeleteRowUpdates(k))
          /\ clicked_delete' = {k}
          /\ rows_before' = speech_type_rows
    /\ UNCHANGED <<gen_text_input_multistyle, speech_type_names,
                   generate_multistyle_btn, parseVars, multiVars, batchVars,
                   chatVars, chatModelVars, modelVars>>

NextTypes ==
    \/ EditGenText
    \/ InsertLabel
    \/ EditName
    \/ AddSpeechType
    \/ DeleteSpeechType

\* C12: whatever the text and the names were edited to, the Generate button
\* is non-interactive when a segment of the text (as parse_speechtypes_text
\* yields them) has a style that is no non-empty name of a speech type, and
\* interactive otherwise.
C12_ButtonTracksMissingStyles ==
    LET segs == parse_speechtypes_text(gen_text_input_multistyle)
        missing == \E k \in DOMAIN segs :
                       \A r \in DOMAIN speech_type_names :
                           \/ speech_type_names[r] = <<>>
                           \/ speech_type_names[r] # segs[k].style
    IN  generate_multistyle_btn <=> ~missing

\* C13: after a click on "Delete Type" of the additional row k, row k is
\* hidden and every other row is as visible as it was before the click.
C13_DeleteHidesOwnRow ==
    \A k \in clicked_delete :
        /\ ~speech_type_rows[k]
        /\ \A r \in AdditionalRows \ {k} :
               speech_type_rows[r] = rows_before[r]

\* C14: after any clicks on "Add Speech Type" and "Delete Type" the count
\* is 1 plus the number of visible additional rows, and it stays between 1
\* and max_speech_types.
C14_CountTracksVisibleRows ==
    /\ speech_type_count =
           1 + Cardinality({r \in AdditionalRows : speech_type_rows[r]})
    /\ speech_type_count \in 1..max_speech_types

-----------------------------------------------------------------------------
(* The TTS model choice and infer's model selection *)

\* Line 48.
DEFAULT_TTS_MODEL == "F5-TTS"

\* Lines 842-845: the paths load_last_used_custom answers without a file.
\* A path is a sequence of atoms, "," being one of its own.
DefaultCkpt == <<"hf://SWivid/F5-TTS/F5TTS_Base/model_1200000.safetensors">>

DefaultVocab == <<"hf://SWivid/F5-TTS/F5TTS_Base/vocab.txt">>

\* The paths a user enters.
Ckpts == {DefaultCkpt, <<"a.pt">>, <<"b", ",", "pt">>}

Vocabs == {DefaultVocab, <<"v.txt">>}

\* The selector handed to infer: "F5-TTS", "E2-TTS" or
\* ["Custom", ckpt, vocab] (lines 851, 854, 859).
Selector(name, ckpt, vocab) == [name |-> name, ckpt |-> ckpt, vocab |-> vocab]

Official(name) == Selector(name, <<>>, <<>>)

\* A model in memory: which loader made it, and from what.
Model(kind, ckpt, vocab) == [kind |-> kind, ckpt |-> ckpt, vocab |-> vocab]

NoModel == Model("None", <<>>, <<>>)

\* Line 78: load_f5tts()'s model.
F5TTS_ema_model == Model("F5-TTS", <<>>, <<>>)

\* Lines 62-64: load_e2tts()'s model.
load_e2tts == Model("E2-TTS", <<>>, <<>>)

\* Lines 67-75: load_custom's model.
load_custom(ckpt_path, vocab_path) == Model("Custom", ckpt_path, vocab_path)

\* Line 861: f"{custom_ckpt_path},{custom_vocab_path}".
FileContent(ckpt, vocab) == ckpt \o <<",">> \o vocab

\* Line 839: str.split(","): the parts between the commas.
RECURSIVE SplitComma(_, _)
SplitComma(content, part) ==
    IF content = <<>> THEN <<part>>
    ELSE IF Head(content) = ","
         THEN <<part>> \o SplitComma(Tail(content), <<>>)
         ELSE SplitComma(Tail(content), Append(part, Head(content)))

\* The file last_used_custom.txt: absent, or with a content.
NoFile == [exists |-> FALSE, content |-> <<>>]

File(content) == [exists |-> TRUE, content |-> content]

\* Lines 836-845: load_last_used_custom.
load_last_used_custom(file) ==
    IF file.exists THEN SplitComma(file.content, <<>>)
    ELSE <<DefaultCkpt, DefaultVocab>>

\* Lines 47-48, 78-80, 864-886: the globals and the widgets when the page is
\* built; the file is absent or is what an earlier session wrote.
ModelInit ==
    /\ last_used_custom \in
           {NoFile} \cup {File(FileContent(c, v)) : c \in Ckpts, v \in Vocabs}
    /\ choose_tts_model = DEFAULT_TTS_MODEL
    /\ custom_ckpt_path = load_last_used_custom(last_used_custom)[1]
    /\ custom_vocab_path = load_last_used_custom(last_used_custom)[2]
    /\ custom_visible = FALSE
    /\ tts_model_choice = Official(DEFAULT_TTS_MODEL)
    /\ E2TTS_ema_model = IF USING_SPACES THEN load_e2tts ELSE NoModel
    /\ custom_ema_model = NoModel
    /\ pre_custom_path = <<>>
    /\ ema_model = NoModel
    /\ infer_model = Official("None")
    /\ infer_outcome = "none"
    /\ cache_before = <<NoModel, <<>>>>

\* Lines 864-871: the choices of the radio.
TtsChoices ==
    IF USING_SPACES THEN {DEFAULT_TTS_MODEL, "E2-TTS"}
    ELSE {DEFAULT_TTS_MODEL, "E2-TTS", "Custom"}

modelCache == <<E2TTS_ema_model, custom_ema_model, pre_custom_path, ema_model,
                infer_model, infer_outcome, cache_before>>

\* Lines 847-855, 887-892: the radio changes to an official model.
SwitchToOfficial ==
    /\ \E new_choice \in TtsChoices \ {choose_tts_model, "Custom"} :
          /\ choose_tts_model' = new_choice
          /\ tts_model_choice' = Official(new_choice)
    /\ custom_visible' = FALSE
    /\ UNCHANGED <<custom_ckpt_path, custom_vocab_path, last_used_custom,
                   modelCache, parseVars, multiVars, batchVars, chatVars,
                   chatModelVars, typeVars>>

\* Lines 847-852, 887-902: the radio changes to "Custom" and the file holds
\* two parts (or is absent): the selector and the dropdowns take them; a
\* dropdown whose value changed thereby calls set_custom_model.
SwitchToCustom ==
    /\ "Custom" \in TtsChoices \ {choose_tts_model}
    /\ LET parts == load_last_used_custom(last_used_custom)
       IN  /\ Len(parts) = 2
           /\ choose_tts_model' = "Custom"
           /\ tts_model_choice' = Selector("Custom", parts[1], parts[2])
           /\ custom_ckpt_path' = parts[1]
           /\ custom_vocab_path' = parts[2]
           /\ custom_visible' = TRUE
           /\ last_used_custom' =
                  IF <<parts[1], parts[2]>>
                         = <<custom_ckpt_path, custom_vocab_path>>
                  THEN last_used_custom
                  ELSE File(FileContent(parts[1], parts[2]))
    /\ UNCHANGED <<modelCache, parseVars, multiVars, batchVars, chatVars,
                   chatModelVars, typeVars>>

\* Lines 847-850: the radio changes to "Custom" and the file does not split
\* into two parts: the unpacking raises and the handler changes nothing.
SwitchToCustomRaises ==
    /\ "Custom" \in TtsChoices \ {choose_tts_model}
    /\ Len(load_last_used_custom(last_used_custom)) # 2
    /\ choose_tts_model' = "Custom"
    /\ UNCHANGED <<custom_ckpt_path, custom_vocab_path, custom_visible,
                   tts_model_choice, last_used_custom, modelCache, parseVars,
                   multiVars, batchVars, chatVars, chatModelVars, typeVars>>

\* Lines 857-861, 893-897: the checkpoint dropdown changes.
SetCustomCkpt ==
    /\ custom_visible
    /\ \E ckpt \in Ckpts \ {custom_ckpt_path} :
          /\ custom_ckpt_path' = ckpt
          /\ tts_model_choice' = Selector("Custom", ckpt, custom_vocab_path)
          /\ last_used_custom' = File(FileContent(ckpt, custom_vocab_path))
    /\ UNCHANGED <<choose_tts_model, custom_vocab_path, custom_visible,
                   modelCache, parseVars, multiVars, batchVars, chatVars,
                   chatModelVars, typeVars>>

\* Lines 857-861, 898-902: the vocabulary dropdown changes.
SetCustomVocab ==
    /\ custom_visible
    /\ \E vocab \in Vocabs \ {custom_vocab_path} :
          /\ custom_vocab_path' = vocab
          /\ tts_model_choice' = Selector("Custom", custom_ckpt_path, vocab)
          /\ last_used_custom' = File(FileContent(custom_ckpt_path, vocab))
    /\ UNCHANGED <<choose_tts_model, custom_ckpt_path, custom_visible,
                   modelCache, parseVars, multiVars, batchVars, chatVars,
                   chatModelVars, typeVars>>

modelChoice == <<choose_tts_model, custom_ckpt_path, custom_vocab_path,
                 custom_visible, tts_model_choice, last_used_custom>>

\* What every call of infer notes on entry: its selector and the cache.
InferEnters ==
    /\ infer_model' = tts_model_choice
    /\ cache_before' = <<custom_ema_model, pre_custom_path>>

\* Lines 157-158: infer with "F5-TTS".
InferF5 ==
    /\ tts_model_choice.name = "F5-TTS"
    /\ InferEnters
    /\ ema_model' = F5TTS_ema_model
    /\ infer_outcome' = "ran"
    /\ UNCHANGED <<E2TTS_ema_model, custom_ema_model, pre_custom_path,
                   modelChoice, parseVars, multiVars, batchVars, chatVars,
                   chatModelVars, typeVars>>

\* Lines 159-164: infer with "E2-TTS"; the model is loaded at the first use.
InferE2 ==
    /\ tts_model_choice.name = "E2-TTS"
    /\ InferEnters
    /\ E2TTS_ema_model' =
           IF E2TTS_ema_model = NoModel THEN load_e2tts ELSE E2TTS_ema_model
    /\ ema_model' = E2TTS_ema_model'
    /\ infer_outcome' = "ran"
    /\ UNCHANGED <<custom_ema_model, pre_custom_path, modelChoice, parseVars,
                   multiVars, batchVars, chatVars, chatModelVars, typeVars>>

\* Lines 159-163: load_e2tts raises.
InferE2LoadFails ==
    /\ tts_model_choice.name = "E2-TTS"
    /\ E2TTS_ema_model = NoModel
    /\ InferEnters
    /\ ema_model' = NoModel
    /\ infer_outcome' = "load_failed"
    /\ UNCHANGED <<E2TTS_ema_model, custom_ema_model, pre_custom_path,
                   modelChoice, parseVars, multiVars, batchVars, chatVars,
                   chatModelVars, typeVars>>

\* Lines 165-172: infer with ["Custom", ckpt, vocab] and another checkpoint
\* path than the one noted: the model is loaded and the path noted.
InferCustomLoads ==
    /\ tts_model_choice.name = "Custom"
    /\ ~USING_SPACES
    /\ pre_custom_path # tts_model_choice.ckpt
    /\ InferEnters
    /\ custom_ema_model' =
           load_custom(tts_model_choice.ckpt, tts_model_choice.vocab)
    /\ pre_custom_path' = tts_model_choice.ckpt
    /\ ema_model' = custom_ema_model'
    /\ infer_outcome' = "ran"
    /\ UNCHANGED <<E2TTS_ema_model, modelChoice, parseVars, multiVars,
                   batchVars, chatVars, chatModelVars, typeVars>>

\* Lines 165-170: load_custom raises before either global is assigned.
InferCustomLoadFails ==
    /\ tts_model_choice.name = "Custom"
    /\ ~USING_SPACES
    /\ pre_custom_path # tts_model_choice.ckpt
    /\ InferEnters
    /\ ema_model' = NoModel
    /\ infer_outcome' = "load_failed"
    /\ UNCHANGED <<E2TTS_ema_model, custom_ema_model, pre_custom_path,
                   modelChoice, parseVars, multiVars, batchVars, chatVars,
                   chatModelVars, typeVars>>

\* Lines 165-172: infer with ["Custom", ckpt, vocab] and the checkpoint
\* path noted: the model in custom_ema_model is used as it is.
InferCustomCached ==
    /\ tts_model_choice.name = "Custom"
    /\ ~USING_SPACES
    /\ pre_custom_path = tts_model_choice.ckpt
    /\ InferEnters
    /\ ema_model' = custom_ema_model
    /\ infer_outcome' = "ran"
    /\ UNCHANGED <<E2TTS_ema_model, custom_ema_model, pre_custom_path,
                   modelChoice, parseVars, multiVars, batchVars, chatVars,
                   chatModelVars, typeVars>>

NextModel ==
    \/ SwitchToOfficial
    \/ SwitchToCustom
    \/ SwitchToCustomRaises
    \/ SetCustomCkpt
    \/ SetCustomVocab
    \/ InferF5
    \/ InferE2
    \/ InferE2LoadFails
    \/ InferCustomLoads
    \/ InferCustomLoadFails
    \/ InferCustomCached

\* C17: whenever infer has run with the selector ["Custom", ckpt, vocab],
\* the model it synthesized with was loaded from that ckpt and that vocab
\* and pre_custom_path is ckpt; after a failed load custom_ema_model and
\* pre_custom_path are what they were.
C17_CustomCacheCoherent ==
    /\ (infer_model.name = "Custom" /\ infer_outcome = "ran") =>
           /\ ema_model = Model("Custom", infer_model.ckpt, infer_model.vocab)
           /\ pre_custom_path = infer_model.ckpt
    /\ (infer_model.name = "Custom" /\ infer_outcome = "load_failed") =>
           <<custom_ema_model, pre_custom_path>> = cache_before

-----------------------------------------------------------------------------
(* The specifications: one handler family each, the others at rest *)

\* The chat model, the speech-type rows and the TTS model choice of a page
\* that runs outside Spaces and was not touched yet.
AppIdle ==
    /\ ChatModelInit
    /\ ~USING_SPACES
    /\ TypesInit
    /\ ModelInit
    /\ last_used_custom = NoFile

InitParse == ParseInit /\ MultiIdle /\ BatchInit /\ ChatInit /\ AppIdle

SpecParse == InitParse /\ [][NextParse]_vars

InitMulti == MultiInit /\ ParseIdle /\ BatchInit /\ ChatInit /\ AppIdle

SpecMulti == InitMulti /\ [][NextMulti]_vars

InitBatch == BatchInit /\ ParseIdle /\ MultiIdle /\ ChatInit /\ AppIdle

SpecBatch == InitBatch /\ [][NextBatch]_vars

InitChat ==
    /\ ChatInit
    /\ ChatModelInit
    /\ ParseIdle
    /\ MultiIdle
    /\ BatchInit
    /\ TypesInit
    /\ ModelInit
    /\ last_used_custom = NoFile

SpecChat == InitChat /\ [][NextChat]_vars

InitTypes ==
    /\ TypesInit
    /\ ParseIdle
    /\ MultiIdle
    /\ BatchInit
    /\ ChatInit
    /\ ChatModelInit
    /\ ~USING_SPACES
    /\ ModelInit
    /\ last_used_custom = NoFile

SpecTypes == InitTypes /\ [][NextTypes]_vars

InitModel ==
    /\ ChatModelInit
    /\ ModelInit
    /\ ParseIdle
    /\ MultiIdle
    /\ BatchInit
    /\ ChatInit
    /\ TypesInit

SpecModel == InitModel /\ [][NextModel]_vars

=============================================================================
